---- MODULE Spec2Model ----
(***************************************************************************)
(* Subverse save editor (src/main.py): the IntProperty scanner and        *)
(* patcher (SaveFileHandler), the positional classifier                   *)
(* (CharacterPropertyManager) and the three handlers of SaveEditorUI that *)
(* touch the save buffer (open_file_dialog, apply_property_change,        *)
(* save_file).                                                            *)
(*                                                                         *)
(* A byte string is a sequence of naturals in 0..255; Python's 0-based    *)
(* index k is element k+1 of the sequence.  A str is a sequence of code   *)
(* points.  A call that may raise returns a record whose field `raised`   *)
(* tells whether it did.                                                  *)
(***************************************************************************)
EXTENDS Integers, Sequences, FiniteSets, TLC

VARIABLES
    disk,         \* bytes of the .sav file the dialogs point at
    content,      \* SaveEditorUI.content
    properties,   \* SaveEditorUI.properties
    file_loaded,  \* SaveEditorUI.file_loaded
    unlocked,     \* unlocked_map shown by display_properties
    table,        \* property_table shown by update_character_properties
    outcome,      \* how the latest handler or call ended
    call,         \* arguments of the latest overwrite_int call
    loaded,       \* history: SaveEditorUI.content as the latest load assigned it
    edits,        \* history: per record, the last value an Apply wrote for it
    scan,         \* read_int_properties run statement by statement: its locals
    steps         \* steps of that run taken so far

vars == <<disk, content, properties, file_loaded, unlocked, table, outcome, call,
          loaded, edits, scan, steps>>

(***************************************************************************)
(* Bounds of the model.                                                    *)
(***************************************************************************)
MaxSegs == 2        \* record segments laid out in a scanned file
MaxCut == 9         \* bytes a scanned file may lose at its end
MaxPatchLen == 6    \* length of the buffers overwrite_int is called on
MaxBlocks == 3      \* blocks of records handed to the classifier
MaxPieces == 5      \* pieces a buffer scanned statement by statement is made of

(***************************************************************************)
(* Constants of the program.                                               *)
(***************************************************************************)
PROPERTY_NAME_OFFSET == -6

Marker == <<73, 110, 116, 80, 114, 111, 112, 101, 114, 116, 121>>  \* b"IntProperty"

CHARACTERS ==
    << <<68, 69, 77, 73>>,                          \* DEMI
       <<76, 105, 108, 121>>,                       \* Lily
       <<75, 105, 108, 105>>,                       \* Kili
       <<69, 108, 97>>,                             \* Ela
       <<84, 97, 114, 111, 110>>,                   \* Taron
       <<83, 111, 118, 97>>,                        \* Sova
       <<70, 111, 114, 116, 117, 110, 101>>,        \* Fortune
       <<72, 117, 110, 116, 114, 101, 115, 115>>,   \* Huntress
       <<66, 108, 121, 116, 104, 101>>,             \* Blythe
       <<70, 111, 119, 45, 67, 104, 97, 110>> >>    \* Fow-Chan

PROPERTY_KEYWORDS ==
    << <<76, 101, 118, 101, 108>>,                                  \* Level
       <<67, 117, 114, 114, 101, 110, 116, 88, 80>>,                \* CurrentXP
       <<66, 108, 117, 101, 66, 97, 108, 108, 115, 88, 80>>,        \* BlueBallsXP
       <<85, 110, 115, 112, 101, 110, 116, 80, 80>>,                \* UnspentPP
       <<67, 117, 114, 114, 101, 110, 116, 68, 101, 118, 111, 116, 105, 111, 110>>,  \* CurrentDevotion
       <<68, 101, 118, 111, 116, 105, 111, 110, 76, 101, 118, 101, 108>> >>          \* DevotionLevel

(***************************************************************************)
(* Python helpers: sequence slicing, bytes.find, str reversal.            *)
(***************************************************************************)
Min(a, b) == IF a <= b THEN a ELSE b

Max(a, b) == IF a >= b THEN a ELSE b

Range(s) == {s[k] : k \in DOMAIN s}

\* A slice bound as Python normalises it: negative counts from the end, and
\* the result is clamped to 0..n.
PyIndex(n, k) == IF k < 0 THEN Max(n + k, 0) ELSE Min(k, n)

\* s[start:stop]
Slice(s, start, stop) ==
    SubSeq(s, PyIndex(Len(s), start) + 1, PyIndex(Len(s), stop))

\* s[start:]
SliceFrom(s, start) == SubSeq(s, PyIndex(Len(s), start) + 1, Len(s))

\* s[:stop]
SliceTo(s, stop) == SubSeq(s, 1, PyIndex(Len(s), stop))

\* The positions (0-based) at which sub occurs in s.
Occurrences(s, sub) ==
    {p \in 0..(Len(s) - Len(sub)) : SubSeq(s, p + 1, p + Len(sub)) = sub}

\* s.find(sub, start) for start >= 0: the lowest occurrence at or after start, or -1.
find(s, sub, start) ==
    LET hits == {p \in Occurrences(s, sub) : p >= start}
    IN  IF hits = {} THEN -1 ELSE CHOOSE p \in hits : \A q \in hits : p <= q

\* sub in s, for two str values
Contains(s, sub) == Occurrences(s, sub) # {}

reverse_string(s) == [k \in 1..Len(s) |-> s[Len(s) + 1 - k]]

(***************************************************************************)
(* bytes.decode('utf-8') in strict mode.                                   *)
(***************************************************************************)
\* Number of continuation bytes a lead byte announces; -1 for a byte that
\* cannot start a character.
Utf8Need(c) ==
    IF c < 128 THEN 0
    ELSE IF c >= 194 /\ c <= 223 THEN 1
    ELSE IF c >= 224 /\ c <= 239 THEN 2
    ELSE IF c >= 240 /\ c <= 244 THEN 3
    ELSE -1

\* Lowest and highest value allowed for the byte after lead byte c.
Utf8SecondLo(c) == IF c = 224 THEN 160 ELSE IF c = 240 THEN 144 ELSE 128

Utf8SecondHi(c) == IF c = 237 THEN 159 ELSE IF c = 244 THEN 143 ELSE 191

Utf8Tail(b, k, n) ==
    /\ k + n <= Len(b)
    /\ \A j \in 1..n :
          /\ b[k + j] >= (IF j = 1 THEN Utf8SecondLo(b[k]) ELSE 128)
          /\ b[k + j] <= (IF j = 1 THEN Utf8SecondHi(b[k]) ELSE 191)

Utf8CodePoint(b, k, n) ==
    IF n = 0 THEN b[k]
    ELSE IF n = 1 THEN (b[k] - 192) * 64 + (b[k + 1] - 128)
    ELSE IF n = 2 THEN (b[k] - 224) * 4096 + (b[k + 1] - 128) * 64 + (b[k + 2] - 128)
    ELSE (b[k] - 240) * 262144 + (b[k + 1] - 128) * 4096
         + (b[k + 2] - 128) * 64 + (b[k + 3] - 128)

RECURSIVE Utf8From(_, _, _)
Utf8From(b, k, acc) ==
    IF k > Len(b) THEN [raised |-> FALSE, text |-> acc]
    ELSE LET n == Utf8Need(b[k])
         IN  IF n < 0 \/ ~Utf8Tail(b, k, n)
             THEN [raised |-> TRUE, text |-> <<>>]     \* UnicodeDecodeError
             ELSE Utf8From(b, k + n + 1, Append(acc, Utf8CodePoint(b, k, n)))

decode_utf8(b) == Utf8From(b, 1, <<>>)

\* str.isprintable for one character.  Exact for Latin-1 (the C0 and C1
\* controls, DEL, NO-BREAK SPACE and SOFT HYPHEN are not printable); the
\* buffers of this model decode to Latin-1 only.
isprintable(c) ==
    IF c < 128 THEN c >= 32 /\ c <= 126
    ELSE IF c < 256 THEN c >= 161 /\ c # 173
    ELSE TRUE

\* ''.join(c for c in s if c.isprintable())
RECURSIVE printable_only(_)
printable_only(s) ==
    IF s = <<>> THEN <<>>
    ELSE (IF isprintable(Head(s)) THEN <<Head(s)>> ELSE <<>>) \o printable_only(Tail(s))

(***************************************************************************)
(* SaveFileHandler                                                         *)
(***************************************************************************)
\* A Python int is unbounded; the model holds one as a sign and a magnitude
\* in base 256, least significant digit first, without leading zero digits,
\* so that 2^32 - 1 and 2^32 are values like any other.
Trim(digits) ==
    LET nz == {k \in DOMAIN digits : digits[k] # 0}
    IN  IF nz = {} THEN <<>>
        ELSE SubSeq(digits, 1, CHOOSE k \in nz : \A q \in nz : q <= k)

PyInt(neg, digits) == [neg |-> neg /\ Trim(digits) # <<>>, mag |-> Trim(digits)]

Zero == PyInt(FALSE, <<>>)

\* An int used as a slice bound.  Every buffer of the model is shorter than
\* 2^24 bytes, so a bound of 2^24 or more selects what 2^24 selects.
AsIndex(n) ==
    IF Len(n.mag) > 3 THEN 16777216
    ELSE (IF Len(n.mag) > 0 THEN n.mag[1] ELSE 0)
         + (IF Len(n.mag) > 1 THEN 256 * n.mag[2] ELSE 0)
         + (IF Len(n.mag) > 2 THEN 65536 * n.mag[3] ELSE 0)

\* unpack_int as it would be without its length test, short data read as if
\* zero-padded.
unpack_int_unguarded(byte_data) == [raised |-> FALSE, value |-> PyInt(FALSE, byte_data)]

\* struct.unpack('<I', byte_data)[0], guarded by the length test of unpack_int.
unpack_int(byte_data) ==
    IF Len(byte_data) < 4
    THEN [raised |-> TRUE, value |-> Zero]             \* ValueError
    ELSE [raised |-> FALSE, value |-> PyInt(FALSE, byte_data)]

\* int_to_bytes_le as it would be with the format '>I' (big-endian).
int_to_bytes_be(n) ==
    IF ~n.neg /\ Len(n.mag) <= 4
    THEN [raised |-> FALSE,
          bytes |-> [k \in 1..4 |-> IF 5 - k <= Len(n.mag) THEN n.mag[5 - k] ELSE 0]]
    ELSE [raised |-> TRUE, bytes |-> <<>>]

\* int_to_bytes_le as it would be if it wrapped modulo 2^32 instead of raising.
int_to_bytes_le_wrapping(n) ==
    [raised |-> FALSE,
     bytes |-> [k \in 1..4 |-> IF k <= Len(n.mag) THEN n.mag[k] ELSE 0]]

\* struct.pack('<I', n): struct.error when n does not fit 32 unsigned bits.
int_to_bytes_le(n) ==
    IF ~n.neg /\ Len(n.mag) <= 4
    THEN [raised |-> FALSE,
          bytes |-> [k \in 1..4 |-> IF k <= Len(n.mag) THEN n.mag[k] ELSE 0]]
    ELSE [raised |-> TRUE, bytes |-> <<>>]             \* struct.error

\* overwrite_int as it would be if the tail were resumed one byte early.
overwrite_int_early_tail(buf, offset, new_val) ==
    LET packed == int_to_bytes_le(new_val)
    IN  IF packed.raised
        THEN [raised |-> TRUE, content |-> buf]
        ELSE [raised |-> FALSE,
              content |-> SliceTo(buf, offset) \o packed.bytes \o SliceFrom(buf, offset + 3)]

\* overwrite_int as it would be if the four bytes were inserted at offset.
overwrite_int_inserting(buf, offset, new_val) ==
    LET packed == int_to_bytes_le(new_val)
    IN  IF packed.raised
        THEN [raised |-> TRUE, content |-> buf]
        ELSE [raised |-> FALSE,
              content |-> SliceTo(buf, offset) \o packed.bytes \o SliceFrom(buf, offset)]

overwrite_int(buf, offset, new_val) ==
    LET packed == int_to_bytes_le(new_val)
    IN  IF packed.raised
        THEN [raised |-> TRUE, content |-> buf]
        ELSE [raised |-> FALSE,
              content |-> SliceTo(buf, offset) \o packed.bytes \o SliceFrom(buf, offset + 4)]

\* The inner while loop of read_int_properties: walk back from pos to the
\* nearest zero byte, never looking at index 0.
RECURSIVE NameEndScan(_, _)
NameEndScan(buf, pos) ==
    IF pos > 0 /\ Slice(buf, pos, pos + 1) # <<0>>
    THEN NameEndScan(buf, pos - 1)
    ELSE pos

\* The outer loop body from line 62 on, for the marker found at start_pos
\* and the name_end_pos line 60 has left:
\*   raised  - an exception left read_int_properties
\*   emitted - the records appended to results (none or one)
ScanRecord(buf, start_pos, name_end_pos) ==
    IF ~(name_end_pos > 0)
    THEN [raised |-> FALSE, emitted |-> <<>>]
    ELSE
      LET raw_name == decode_utf8(Slice(buf, name_end_pos, start_pos))
          prop_name == printable_only(reverse_string(raw_name.text))
          int_pos == start_pos + Len(Marker) + 1
          to_data_length == unpack_int(Slice(buf, int_pos, int_pos + 4))
          start_of_data == int_pos + 4 + AsIndex(to_data_length.value) + 1
          value == unpack_int(Slice(buf, start_of_data, start_of_data + 4))
      IN  IF raw_name.raised \/ to_data_length.raised
          THEN [raised |-> TRUE, emitted |-> <<>>]
          ELSE IF value.raised
          THEN [raised |-> FALSE, emitted |-> <<>>]    \* caught, printed
          ELSE [raised |-> FALSE,
                emitted |-> << [name |-> reverse_string(prop_name),
                                value |-> value.value,
                                data_start |-> start_of_data] >>]

\* One pass of the outer loop body for the marker found at start_pos.
ScanIter(buf, start_pos) ==
    ScanRecord(buf, start_pos, NameEndScan(buf, start_pos + PROPERTY_NAME_OFFSET) + 1)

\* The outer while loop of read_int_properties, from cursor i.
RECURSIVE ScanLoop(_, _, _)

\* ScanLoop as it would be if results.insert(0, ...) replaced results.append.
ScanLoop_prepending(buf, i, results) ==
    IF ~(i < Len(buf)) THEN [raised |-> FALSE, results |-> results]
    ELSE LET start_pos == find(buf, Marker, i)
         IN  IF start_pos = -1 THEN [raised |-> FALSE, results |-> results]
             ELSE LET it == ScanIter(buf, start_pos)
                  IN  IF it.raised THEN [raised |-> TRUE, results |-> <<>>]
                      ELSE ScanLoop(buf, start_pos + 1, it.emitted \o results)

ScanLoop(buf, i, results) ==
    IF ~(i < Len(buf)) THEN [raised |-> FALSE, results |-> results]
    ELSE LET start_pos == find(buf, Marker, i)
         IN  IF start_pos = -1 THEN [raised |-> FALSE, results |-> results]
             ELSE LET it == ScanIter(buf, start_pos)
                  IN  IF it.raised THEN [raised |-> TRUE, results |-> <<>>]
                      ELSE ScanLoop(buf, start_pos + 1, results \o it.emitted)

read_int_properties(file) == ScanLoop(file, 0, <<>>)

(***************************************************************************)
(* CharacterPropertyManager                                                *)
(***************************************************************************)
\* str(n) for n >= 0, as code points.
RECURSIVE Decimal(_)
Decimal(n) ==
    IF n < 10 THEN <<48 + n>> ELSE Decimal(n \div 10) \o <<48 + (n % 10)>>

\* prop['name'].split('_')[0]
RECURSIVE FirstSegment(_)
FirstSegment(name) ==
    IF name = <<>> \/ Head(name) = 95 THEN <<>>
    ELSE <<Head(name)>> \o FirstSegment(Tail(name))

\* MatchIndex as it would be without the break: the last matching keyword wins.
MatchIndex_last(name) ==
    LET hits == {j \in DOMAIN PROPERTY_KEYWORDS :
                    Contains(PROPERTY_KEYWORDS[j], FirstSegment(name))}
    IN  IF hits = {} THEN 0 ELSE CHOOSE j \in hits : \A q \in hits : j >= q

\* The inner for loop with its break: the index in PROPERTY_KEYWORDS of the
\* first keyword that has the key as a substring, 0 when there is none.
MatchIndex(name) ==
    LET hits == {j \in DOMAIN PROPERTY_KEYWORDS :
                    Contains(PROPERTY_KEYWORDS[j], FirstSegment(name))}
    IN  IF hits = {} THEN 0 ELSE CHOOSE j \in hits : \A q \in hits : j <= q

ZeroCounters == [key \in Range(PROPERTY_KEYWORDS) |-> 0]

\* UnlockStep as it would be if the occurrence counter were not advanced.
UnlockStep_uncounted(st, prop) ==
    LET j == MatchIndex(prop.name)
    IN  IF j = 0 THEN st
        ELSE LET key == PROPERTY_KEYWORDS[j]
                 index == st.keyword_occurrence_counters[key]
             IN  IF index < Len(CHARACTERS)
                 THEN [character_property_counts |->
                          [st.character_property_counts EXCEPT ![CHARACTERS[index + 1]] = @ + 1],
                       keyword_occurrence_counters |-> st.keyword_occurrence_counters]
                 ELSE st

\* One pass of the loop body of get_unlocked_characters.
UnlockStep(st, prop) ==
    LET j == MatchIndex(prop.name)
    IN  IF j = 0 THEN st
        ELSE LET key == PROPERTY_KEYWORDS[j]
                 index == st.keyword_occurrence_counters[key]
             IN  IF index < Len(CHARACTERS)
                 THEN [character_property_counts |->
                          [st.character_property_counts EXCEPT ![CHARACTERS[index + 1]] = @ + 1],
                       keyword_occurrence_counters |->
                          [st.keyword_occurrence_counters EXCEPT ![key] = @ + 1]]
                 ELSE st

RECURSIVE UnlockLoop(_, _, _)
UnlockLoop(props, k, st) ==
    IF k > Len(props) THEN st ELSE UnlockLoop(props, k + 1, UnlockStep(st, props[k]))

get_unlocked_characters(props) ==
    LET final == UnlockLoop(props, 1,
                     [character_property_counts |-> [char \in Range(CHARACTERS) |-> 0],
                      keyword_occurrence_counters |-> ZeroCounters])
    IN  [char \in Range(CHARACTERS) |->
            final.character_property_counts[char] >= Len(PROPERTY_KEYWORDS)]

\* f"{key} ({occurrence_index + 1})"
DisplayName(key, occurrence_index) ==
    key \o <<32, 40>> \o Decimal(occurrence_index + 1) \o <<41>>

\* One pass of the loop body of build_character_property_table.  A dict is a
\* function whose domain is its set of keys.
TableStep(st, prop) ==
    LET j == MatchIndex(prop.name)
    IN  IF j = 0 THEN st
        ELSE LET key == PROPERTY_KEYWORDS[j]
                 occurrence_index == st.keyword_occurrence_counters[key]
             IN  IF occurrence_index < Len(CHARACTERS)
                 THEN LET character_name == CHARACTERS[occurrence_index + 1]
                          entry == [name |-> prop.name, value |-> prop.value,
                                    data_start |-> prop.data_start,
                                    display_name |-> DisplayName(key, occurrence_index)]
                      IN  [table |-> [st.table EXCEPT ![character_name] =
                                         (key :> entry) @@ @],
                           keyword_occurrence_counters |->
                              [st.keyword_occurrence_counters EXCEPT ![key] = @ + 1]]
                 ELSE st

RECURSIVE TableLoop(_, _, _)
TableLoop(props, k, st) ==
    IF k > Len(props) THEN st ELSE TableLoop(props, k + 1, TableStep(st, props[k]))

build_character_property_table(props) ==
    TableLoop(props, 1,
              [table |-> [char \in Range(CHARACTERS) |-> <<>>],
               keyword_occurrence_counters |-> ZeroCounters]).table

(***************************************************************************)
(* SaveEditorUI                                                            *)
(***************************************************************************)
\* int(text): surrounding whitespace, an optional sign, decimal digits with
\* single underscores between them; anything else is a ValueError.  The
\* entries of this model are ASCII.
IsSpace(c) == c \in {9, 10, 11, 12, 13, 28, 29, 30, 31, 32}

RECURSIVE LStrip(_)
LStrip(s) == IF s # <<>> /\ IsSpace(Head(s)) THEN LStrip(Tail(s)) ELSE s

Strip(s) == reverse_string(LStrip(reverse_string(LStrip(s))))

ValidDigits(b) ==
    /\ b # <<>>
    /\ \A k \in DOMAIN b : b[k] \in (48..57) \cup {95}
    /\ b[1] # 95
    /\ b[Len(b)] # 95
    /\ \A k \in 1..(Len(b) - 1) : ~(b[k] = 95 /\ b[k + 1] = 95)

\* digits * m + carry on a magnitude
RECURSIVE MulAdd(_, _, _)
MulAdd(digits, m, carry) ==
    IF digits = <<>>
    THEN (IF carry = 0 THEN <<>> ELSE <<carry % 256>> \o MulAdd(<<>>, m, carry \div 256))
    ELSE LET t == Head(digits) * m + carry
         IN  <<t % 256>> \o MulAdd(Tail(digits), m, t \div 256)

RECURSIVE DigitsValue(_, _)
DigitsValue(b, acc) ==
    IF b = <<>> THEN acc
    ELSE DigitsValue(Tail(b),
                     IF Head(b) = 95 THEN acc ELSE MulAdd(acc, 10, Head(b) - 48))

int(text) ==
    LET t == Strip(text)
        signed == t # <<>> /\ Head(t) \in {43, 45}
        body == IF signed THEN Tail(t) ELSE t
    IN  IF ~ValidDigits(body) THEN [raised |-> TRUE, value |-> Zero]     \* ValueError
        ELSE [raised |-> FALSE,
              value |-> PyInt(signed /\ Head(t) = 45, DigitsValue(body, <<>>))]

\* update_misc_properties: is_character
IsCharacter(prop_name) ==
    \E k \in DOMAIN PROPERTY_KEYWORDS, c \in DOMAIN CHARACTERS :
        Contains(prop_name, PROPERTY_KEYWORDS[k]) /\ Contains(prop_name, CHARACTERS[c])

\* The records that have an Apply button: the entries of the character table
\* (create_character_property_widget) and every record that is not
\* is_character (create_misc_property_widget).
HasApplyButton(prop, tbl) ==
    \/ ~IsCharacter(prop.name)
    \/ \E char \in DOMAIN tbl : \E key \in DOMAIN tbl[char] :
          /\ tbl[char][key].name = prop.name
          /\ tbl[char][key].value = prop.value
          /\ tbl[char][key].data_start = prop.data_start

NoCall == [offset |-> 0, new_val |-> Zero]

\* read_int_properties is not being run statement by statement.
NoScan ==
    [pc |-> "idle", i |-> 0, start_pos |-> 0, name_end_pos |-> 0, results |-> <<>>,
     passes |-> 0]

\* No Apply has written a value for any of the records yet.
NoEdits(recs) == [k \in DOMAIN recs |-> [done |-> FALSE, value |-> Zero]]

EmptyTable == build_character_property_table(<<>>)

\* open_file_dialog with a file chosen: clear_ui, read_int_properties,
\* display_properties; any exception ends in the "Failed to load" dialog.
OpenFile ==
    LET read == read_int_properties(disk)
    IN  /\ IF read.raised
           THEN /\ properties' = <<>>
                /\ content' = <<>>
                /\ file_loaded' = FALSE
                /\ table' = EmptyTable
                /\ unlocked' = unlocked
                /\ outcome' = "load_error"
                /\ loaded' = <<>>
                /\ edits' = <<>>
           ELSE /\ properties' = read.results
                /\ content' = disk
                /\ loaded' = disk
                /\ edits' = NoEdits(read.results)
                /\ file_loaded' = TRUE
                /\ unlocked' = get_unlocked_characters(read.results)
                /\ table' = build_character_property_table(read.results)
                /\ outcome' = "loaded"
        /\ call' = NoCall
        /\ UNCHANGED <<disk, scan, steps>>

\* open_file_dialog with the dialog cancelled: clear_ui only.
OpenCancel ==
    /\ properties' = <<>>
    /\ content' = <<>>
    /\ file_loaded' = FALSE
    /\ table' = EmptyTable
    /\ outcome' = "cancelled"
    /\ call' = NoCall
    /\ loaded' = <<>>
    /\ edits' = <<>>
    /\ UNCHANGED <<disk, unlocked, scan, steps>>

\* apply_property_change(entry, prop_info) for the k-th record and the text
\* typed into its entry.  Only ValueError is caught; struct.error leaves the
\* handler, before self.content is assigned.
Apply(k, text) ==
    /\ k \in DOMAIN properties
    /\ HasApplyButton(properties[k], table)
    /\ LET new_val == int(text)
           patched == overwrite_int(content, properties[k].data_start, new_val.value)
       IN  IF new_val.raised
           THEN /\ outcome' = "invalid_entry"
                /\ UNCHANGED <<content, call, edits>>
           ELSE /\ call' = [offset |-> properties[k].data_start, new_val |-> new_val.value]
                /\ IF patched.raised
                   THEN outcome' = "struct_error" /\ UNCHANGED <<content, edits>>
                   ELSE /\ outcome' = "applied"
                        /\ content' = patched.content
                        /\ edits' = [edits EXCEPT
                                        ![k] = [done |-> TRUE, value |-> new_val.value]]
    /\ UNCHANGED <<disk, properties, file_loaded, unlocked, table, loaded, scan, steps>>

\* save_file, writing to the path the file was opened from.
Save ==
    /\ IF ~file_loaded
       THEN outcome' = "no_file" /\ UNCHANGED disk
       ELSE outcome' = "saved" /\ disk' = content
    /\ UNCHANGED <<content, properties, file_loaded, unlocked, table, call, loaded, edits,
                   scan, steps>>

\* save_file with the save dialog cancelled: save_path is empty.
SaveCancel ==
    /\ file_loaded
    /\ outcome' = "save_cancelled"
    /\ UNCHANGED <<disk, content, properties, file_loaded, unlocked, table, call,
                   loaded, edits, scan, steps>>

\* save_file when open() or write() raises: the "Failed to save" dialog.
\* Either open() raised and the file is as it was, or open() had truncated
\* the file and nothing of the buffer reached it (the files of the model are
\* shorter than one write buffer, which is flushed in one piece).
SaveFail ==
    /\ file_loaded
    /\ outcome' = "save_error"
    /\ disk' \in {disk, <<>>}
    /\ UNCHANGED <<content, properties, file_loaded, unlocked, table, call,
                   loaded, edits, scan, steps>>

(***************************************************************************)
(* The files and inputs the model runs on.                                 *)
(***************************************************************************)
\* What precedes a marker: the property's name with its length prefix and
\* NUL, then the length prefix (12) of the type string "IntProperty\0".
NamedXP == <<3, 0, 0, 0, 88, 80, 0, 12, 0, 0, 0>>       \* name "XP"

NamedLevel == <<6, 0, 0, 0, 76, 101, 118, 101, 108, 0, 12, 0, 0, 0>>   \* name "Level"

NoTerminatorPre == <<65, 65, 65, 65, 65, 65>>           \* six letters, no zero byte

ShortPre == <<65>>                                      \* fewer than 6 bytes

BadUtf8Pre == <<0, 255, 0, 12, 0, 0, 0>>                \* 0xFF is not UTF-8

Segment(pre, len_field, payload, value) ==
    pre \o Marker \o <<0>> \o len_field \o payload \o <<0>> \o value

Segments ==
    { Segment(NamedXP, <<4, 0, 0, 0>>, <<0, 0, 0, 0>>, <<42, 0, 0, 0>>),
      Segment(NamedXP, <<0, 0, 0, 0>>, <<>>, <<42, 0, 0, 0>>),
      Segment(NamedLevel, <<0, 0, 0, 0>>, <<>>, <<1, 1, 1, 1>>),
      Segment(NoTerminatorPre, <<0, 0, 0, 0>>, <<>>, <<42, 0, 0, 0>>),
      Segment(ShortPre, <<0, 0, 0, 0>>, <<>>, <<42, 0, 0, 0>>),
      Segment(BadUtf8Pre, <<0, 0, 0, 0>>, <<>>, <<42, 0, 0, 0>>),
      Segment(NamedXP, <<12, 0, 0, 0>>, <<>>, <<42, 0, 0, 0>>),
      Segment(NamedXP, <<36, 0, 0, 0>>, <<>>, <<42, 0, 0, 0>>),
      Segment(NamedXP, <<0, 0, 0, 1>>, <<>>, <<42, 0, 0, 0>>) }

\* Files of at most n segments.
RECURSIVE Layouts(_)
Layouts(n) ==
    IF n = 0 THEN {<<>>}
    ELSE Layouts(n - 1) \cup {f \o g : f \in Layouts(n - 1), g \in Segments}

\* The files the scanner is run on: layouts, whole or cut short at the end.
ScanFiles ==
    {SubSeq(f, 1, Len(f) - c) : f \in Layouts(MaxSegs), c \in 0..MaxCut}

\* The files the editor is run on.
EditorFiles ==
    { Segment(NamedLevel, <<4, 0, 0, 0>>, <<0, 0, 0, 0>>, <<42, 0, 0, 0>>)
        \o Segment(NamedXP, <<0, 0, 0, 0>>, <<>>, <<1, 1, 1, 1>>),
      Segment(BadUtf8Pre, <<0, 0, 0, 0>>, <<>>, <<42, 0, 0, 0>>),
      \* the first length field (30) puts the first value two bytes before
      \* the second: the two value regions overlap
      Segment(NamedXP, <<30, 0, 0, 0>>, <<>>, <<42, 0, 0, 0>>)
        \o Segment(NamedXP, <<0, 0, 0, 0>>, <<>>, <<7, 0, 0, 0>>) }

\* Values written by a patch: 100, 0x41414141 ("AAAA"), 2^32 - 1 and 0.
PatchValues ==
    { PyInt(FALSE, <<100>>), PyInt(FALSE, <<65, 65, 65, 65>>),
      PyInt(FALSE, <<255, 255, 255, 255>>), Zero }

\* Values no patch can write: -1 and 2^32.
BadValues == { PyInt(TRUE, <<1>>), PyInt(FALSE, <<0, 0, 0, 0, 1>>) }

\* Texts typed into an entry: "100", " 4294967295", "-1", "4294967296", "abc".
EntryTexts ==
    { <<49, 48, 48>>,
      <<32, 52, 50, 57, 52, 57, 54, 55, 50, 57, 53>>,
      <<45, 49>>,
      <<52, 50, 57, 52, 57, 54, 55, 50, 57, 54>>,
      <<97, 98, 99>> }

(***************************************************************************)
(* Spec: the editor.  A file is opened, edited with Apply and saved.       *)
(***************************************************************************)
Fresh ==
    /\ content = <<>>
    /\ properties = <<>>
    /\ file_loaded = FALSE
    /\ unlocked = get_unlocked_characters(<<>>)
    /\ table = EmptyTable
    /\ outcome = "none"
    /\ call = NoCall
    /\ loaded = <<>>
    /\ edits = <<>>
    /\ scan = NoScan
    /\ steps = 0

Init == disk \in EditorFiles /\ Fresh

\* Apply clicked on any row, with any of the texts in its entry.
ApplyClick == \E k \in DOMAIN properties, text \in EntryTexts : Apply(k, text)

Next ==
    \/ OpenFile
    \/ OpenCancel
    \/ ApplyClick
    \/ Save
    \/ SaveCancel
    \/ SaveFail

Spec == Init /\ [][Next]_vars

(***************************************************************************)
(* SpecScan: read_int_properties over a wide family of files.              *)
(***************************************************************************)
InitScan == disk \in ScanFiles /\ Fresh

NextScan == OpenFile \/ OpenCancel

SpecScan == InitScan /\ [][NextScan]_vars

(***************************************************************************)
(* SpecPatch: one call of overwrite_int on any buffer, offset and value.   *)
(***************************************************************************)
PatchBytes == {17, 238}

RECURSIVE BytesUpTo(_)
BytesUpTo(n) ==
    IF n = 0 THEN {<<>>}
    ELSE BytesUpTo(n - 1) \cup
         {Append(b, x) : b \in {c \in BytesUpTo(n - 1) : Len(c) = n - 1}, x \in PatchBytes}

InitPatch ==
    /\ content \in BytesUpTo(MaxPatchLen)
    /\ disk = <<>>
    /\ properties = <<>>
    /\ file_loaded = FALSE
    /\ unlocked = get_unlocked_characters(<<>>)
    /\ table = EmptyTable
    /\ outcome = "none"
    /\ call = NoCall
    /\ loaded = <<>>
    /\ edits = <<>>
    /\ scan = NoScan
    /\ steps = 0

PatchCall(offset, new_val) ==
    LET patched == overwrite_int(content, offset, new_val)
    IN  /\ outcome = "none"
        /\ call' = [offset |-> offset, new_val |-> new_val]
        /\ content' = patched.content
        /\ outcome' = IF patched.raised THEN "struct_error" ELSE "applied"
        /\ UNCHANGED <<disk, properties, file_loaded, unlocked, table, loaded, edits, scan, steps>>

NextPatch ==
    \E offset \in (0 - MaxPatchLen - 2)..(MaxPatchLen + 2),
       new_val \in PatchValues \cup BadValues : PatchCall(offset, new_val)

SpecPatch == InitPatch /\ [][NextPatch]_vars

(***************************************************************************)
(* SpecClassify: display_properties over sequences of records.             *)
(***************************************************************************)
RecordNames ==
    { PROPERTY_KEYWORDS[6],
      <<88, 80>>,                                        \* "XP"
      <<67, 114, 101, 100, 105, 116, 115>>,              \* "Credits"
      <<>>,                                              \* ""
      <<76, 101, 118, 101, 108, 95, 68, 69, 77, 73>> }   \* "Level_DEMI"

\* A block of names: one name, one name per keyword, one per keyword but
\* the last, or one name repeated once per roster slot.
NameBlocks ==
    {<<n>> : n \in RecordNames}
    \cup {PROPERTY_KEYWORDS, SubSeq(PROPERTY_KEYWORDS, 1, Len(PROPERTY_KEYWORDS) - 1)}
    \cup {[k \in 1..Len(CHARACTERS) |-> PROPERTY_KEYWORDS[1]]}

RECURSIVE NameLists(_)
NameLists(n) ==
    IF n = 0 THEN {<<>>}
    ELSE NameLists(n - 1) \cup {f \o g : f \in NameLists(n - 1), g \in NameBlocks}

\* Records as a scan lays them out: distinct offsets in ascending order.
RecordsOf(names) ==
    [k \in DOMAIN names |->
        [name |-> names[k], value |-> PyInt(FALSE, <<k>>), data_start |-> 21 * k]]

InitClassify ==
    /\ properties \in {RecordsOf(names) : names \in NameLists(MaxBlocks)}
    /\ disk = <<>>
    /\ content = <<>>
    /\ file_loaded = FALSE
    /\ unlocked = get_unlocked_characters(<<>>)
    /\ table = EmptyTable
    /\ outcome = "none"
    /\ call = NoCall
    /\ loaded = <<>>
    /\ edits = <<>>
    /\ scan = NoScan
    /\ steps = 0

\* display_properties: the unlocked map and the table of the records held.
Display ==
    /\ unlocked' = get_unlocked_characters(properties)
    /\ table' = build_character_property_table(properties)
    /\ outcome' = "displayed"
    /\ UNCHANGED <<disk, content, properties, file_loaded, call, loaded, edits, scan, steps>>

NextClassify == Display

SpecClassify == InitClassify /\ [][NextClassify]_vars

(***************************************************************************)
(* SpecStep: read_int_properties run statement by statement on the file    *)
(* `disk`.  scan.pc is the position in the function:                       *)
(*   "while"  - at the test of the outer loop (line 51)                    *)
(*   "name"   - at the test of the inner loop (line 58)                    *)
(*   "return" - the function has returned (line 85)                        *)
(*   "raised" - an exception has left the function                         *)
(* scan.passes counts the passes of the outer loop that have begun.        *)
(***************************************************************************)
\* The pieces the scanned buffers are put together from: the marker, a name
\* prefix with its terminator, what follows a marker in a record (separator,
\* length field 0, separator, value 42), letters with no zero byte, and a
\* byte that is not UTF-8.
Pieces ==
    { Marker,
      NamedXP,
      <<0, 0, 0, 0, 0, 0, 42, 0, 0, 0>>,
      <<65, 65, 65, 65, 65, 65, 65>>,
      <<255>> }

\* Buffers of at most n pieces.
RECURSIVE PieceFiles(_)
PieceFiles(n) ==
    IF n = 0 THEN {<<>>}
    ELSE PieceFiles(n - 1) \cup {f \o g : f \in PieceFiles(n - 1), g \in Pieces}

InitStep ==
    /\ disk \in PieceFiles(MaxPieces)
    /\ content = <<>>
    /\ properties = <<>>
    /\ file_loaded = FALSE
    /\ unlocked = get_unlocked_characters(<<>>)
    /\ table = EmptyTable
    /\ outcome = "none"
    /\ call = NoCall
    /\ loaded = <<>>
    /\ edits = <<>>
    /\ scan = [NoScan EXCEPT !.pc = "while"]
    /\ steps = 0

\* NextCursor as it would be if the cursor were left on the marker found.
NextCursor_on_marker(start_pos) == start_pos

\* i = start_pos + 1, at the end of a pass (line 83).
NextCursor(start_pos) == start_pos + 1

\* Lines 51-57: the loop test, the search for the marker from the cursor,
\* and the start of the walk back over the name.
ScanWhile ==
    /\ scan.pc = "while"
    /\ IF ~(scan.i < Len(disk))
       THEN scan' = [scan EXCEPT !.pc = "return"]
       ELSE LET start_pos == find(disk, Marker, scan.i)
            IN  IF start_pos = -1
                THEN scan' = [scan EXCEPT !.pc = "return"]              \* break
                ELSE scan' = [scan EXCEPT !.pc = "name",
                                          !.start_pos = start_pos,
                                          !.name_end_pos = start_pos + PROPERTY_NAME_OFFSET,
                                          !.passes = @ + 1]
    /\ steps' = steps + 1
    /\ UNCHANGED <<disk, content, properties, file_loaded, unlocked, table, outcome,
                   call, loaded, edits>>

\* Lines 58-59: one pass of the inner loop.
ScanNameBack ==
    /\ scan.pc = "name"
    /\ scan.name_end_pos > 0
    /\ Slice(disk, scan.name_end_pos, scan.name_end_pos + 1) # <<0>>
    /\ scan' = [scan EXCEPT !.name_end_pos = @ - 1]
    /\ steps' = steps + 1
    /\ UNCHANGED <<disk, content, properties, file_loaded, unlocked, table, outcome,
                   call, loaded, edits>>

\* Lines 60-83: the inner loop has ended; the rest of the pass.
ScanEmit ==
    /\ scan.pc = "name"
    /\ ~(/\ scan.name_end_pos > 0
         /\ Slice(disk, scan.name_end_pos, scan.name_end_pos + 1) # <<0>>)
    /\ LET it == ScanRecord(disk, scan.start_pos, scan.name_end_pos + 1)
       IN  IF it.raised
           THEN scan' = [scan EXCEPT !.pc = "raised"]
           ELSE scan' = [scan EXCEPT !.pc = "while",
                                     !.results = @ \o it.emitted,
                                     !.i = NextCursor(scan.start_pos)]
    /\ steps' = steps + 1
    /\ UNCHANGED <<disk, content, properties, file_loaded, unlocked, table, outcome,
                   call, loaded, edits>>

NextStep ==
    \/ ScanWhile
    \/ ScanNameBack
    \/ ScanEmit

\* The run takes a step: it is at one of the two loop tests, and every step
\* from there is counted.
Step == scan.pc \in {"while", "name"} /\ steps' = steps + 1

\* The interpreter goes on executing the function while it has a statement
\* to execute: a run that stays at a loop test takes a step.
SpecStep == InitStep /\ [][NextStep]_vars /\ WF_steps(Step)

(***************************************************************************)
(* Vocabulary of the properties.                                           *)
(***************************************************************************)
\* offset .. offset+3 lie inside buf
Addressable(buf, offset) == 0 <= offset /\ offset + 4 <= Len(buf)

\* n is in [0, 2^32 - 1]
InU32(n) == ~n.neg /\ Len(n.mag) <= 4

\* The k-th byte (1..4) of the little-endian encoding of n
LEByte(n, k) == IF k <= Len(n.mag) THEN n.mag[k] ELSE 0

\* A step of SpecPatch that is the call of overwrite_int
IsPatchCall == outcome = "none" /\ outcome' # "none"

ApplyOutcomes == {"applied", "struct_error", "invalid_entry"}

(***************************************************************************)
(* C1.  overwrite_int on an addressable offset and a value in             *)
(* [0, 2^32 - 1] returns a buffer of the same length whose 4 bytes at     *)
(* offset are the little-endian encoding of the value and whose every     *)
(* other byte is the input's byte at that position.                       *)
(***************************************************************************)
C1_PatchFrame ==
    [][ (IsPatchCall /\ Addressable(content, call'.offset) /\ InU32(call'.new_val))
        => /\ outcome' = "applied"
           /\ Len(content') = Len(content)
           /\ \A k \in 1..4 : content'[call'.offset + k] = LEByte(call'.new_val, k)
           /\ \A p \in 1..Len(content) :
                 (p <= call'.offset \/ p > call'.offset + 4) => content'[p] = content[p]
      ]_vars

\* 100 written in the middle of a buffer, with bytes before and after it.
C1_Witness ==
    /\ outcome = "applied"
    /\ call.new_val = PyInt(FALSE, <<100>>)
    /\ call.offset = 1
    /\ Len(content) = 6
    /\ content = <<238, 100, 0, 0, 0, 17>>

(***************************************************************************)
(* C4.  overwrite_int on an offset that is not addressable fails before   *)
(* any byte is written: no buffer differing from the input is produced.   *)
(***************************************************************************)
C4_InvalidOffsetRejected ==
    [][ (IsPatchCall /\ ~Addressable(content, call'.offset))
        => (outcome' # "applied" /\ content' = content)
      ]_vars

(***************************************************************************)
(* C5.  An Apply whose value is outside [0, 2^32 - 1] is an error for     *)
(* that edit and leaves the held content as it was; so does every failed  *)
(* Apply.  Nothing is written modulo 2^32.                                *)
(***************************************************************************)
C5_BadValueLeavesBuffer ==
    [][ /\ (outcome' \in {"struct_error", "invalid_entry"}) => content' = content
        /\ (outcome' \in ApplyOutcomes /\ ~InU32(call'.new_val))
              => (outcome' # "applied" /\ content' = content)
      ]_vars

\* An Apply of 2^32 on a loaded file has just failed.
C5_Witness ==
    /\ file_loaded
    /\ outcome = "struct_error"
    /\ call.new_val = PyInt(FALSE, <<0, 0, 0, 0, 1>>)
    /\ content = disk

(***************************************************************************)
(* Vocabulary of the properties of the scan.                               *)
(***************************************************************************)
Markers(buf) == Occurrences(buf, Marker)

\* The j-th marker occurrence in ascending position
NthMarker(buf, j) ==
    CHOOSE M \in Markers(buf) : Cardinality({q \in Markers(buf) : q < M}) = j - 1

\* The 4-byte length field after the marker at M and its separator is inside buf
LengthFieldComplete(buf, M) == M + 16 <= Len(buf)

\* Where the value of the record at M lies: after marker, separator, length
\* field, payload and one more separator
ValueOffset(buf, M) == M + 17 + AsIndex(PyInt(FALSE, SubSeq(buf, M + 13, M + 16)))

ValueComplete(buf, M) ==
    LengthFieldComplete(buf, M) /\ ValueOffset(buf, M) + 4 <= Len(buf)

HasRecordAt(recs, offset) == \E k \in DOMAIN recs : recs[k].data_start = offset

AllAscii(buf) == \A p \in DOMAIN buf : buf[p] < 128

\* No zero byte at or before M - 6
NoZeroBefore(buf, M) == \A p \in 0..(M - 6) : buf[p + 1] # 0

\* The bytes taken as the name of the record at M are UTF-8
NameDecodes(buf, M) ==
    ~decode_utf8(Slice(buf, NameEndScan(buf, M - 6) + 1, M)).raised

\* A file has just been read, successfully or not
Scanned == outcome \in {"loaded", "load_error"}

(***************************************************************************)
(* C3.  A marker whose length field or value is cut off by the end of the *)
(* buffer does not make the scan raise: that occurrence is skipped and    *)
(* every well-formed occurrence still yields its record.                  *)
(***************************************************************************)
C3_TruncatedMarkerSkipped ==
    (Scanned /\ AllAscii(disk) /\ \E M \in Markers(disk) : ~ValueComplete(disk, M))
    => /\ outcome = "loaded"
       /\ \A M \in Markers(disk) :
             (M >= 6 /\ ValueComplete(disk, M))
                => HasRecordAt(properties, ValueOffset(disk, M))

(***************************************************************************)
(* C7.  A marker with no zero byte between the start of the buffer and    *)
(* M - 6 yields no record.                                                *)
(***************************************************************************)
C7_NoTerminatorNoRecord ==
    outcome = "loaded"
    => \A M \in Markers(content) :
          ( /\ NoZeroBefore(content, M)
            /\ LengthFieldComplete(content, M)
            /\ \A M2 \in Markers(content) :
                  (M2 # M /\ LengthFieldComplete(content, M2))
                     => ValueOffset(content, M2) # ValueOffset(content, M) )
          => ~HasRecordAt(properties, ValueOffset(content, M))

(***************************************************************************)
(* C8.  Every record of a scan lies inside the buffer, whatever the       *)
(* length field says, and its value is the unsigned little-endian 32-bit  *)
(* integer stored at its value_offset.                                    *)
(***************************************************************************)
C8_RecordInBounds ==
    outcome = "loaded"
    => \A k \in DOMAIN properties :
          LET r == properties[k]
          IN  /\ 0 <= r.data_start
              /\ r.data_start + 4 <= Len(content)
              /\ InU32(r.value)
              /\ \A j \in 1..4 : content[r.data_start + j] = LEByte(r.value, j)

\* A record whose value ends with the buffer, beside a marker that yields
\* no record.
C8_Witness ==
    /\ outcome = "loaded"
    /\ \E k \in DOMAIN properties : properties[k].data_start + 4 = Len(content)
    /\ \E M \in Markers(content) :
          M >= 6 /\ LengthFieldComplete(content, M) /\ ~ValueComplete(content, M)

(***************************************************************************)
(* C6.  As claimed: a buffer whose k markers are each followed by a       *)
(* complete length field, payload and value scans to exactly k records,   *)
(* one per marker in ascending marker position, with strictly increasing  *)
(* value_offset.                                                          *)
(***************************************************************************)
OnePerMarker ==
    /\ Len(properties) = Cardinality(Markers(disk))
    /\ \A j \in DOMAIN properties :
          properties[j].data_start = ValueOffset(disk, NthMarker(disk, j))

C6_Original ==
    (Scanned /\ \A M \in Markers(disk) : ValueComplete(disk, M))
    => /\ outcome = "loaded"
       /\ OnePerMarker
       /\ \A j \in 1..(Len(properties) - 1) :
             properties[j].data_start < properties[j + 1].data_start

(***************************************************************************)
(* C6, amended.  When moreover every marker starts at position 6 or       *)
(* later and its name bytes are UTF-8, the scan returns exactly k records,*)
(* one per marker in ascending marker position; value_offset increases    *)
(* from one record to the next whenever the next marker starts at or      *)
(* after the end of the previous record's value.                          *)
(***************************************************************************)
C6_OnePerWellFormedMarker ==
    (Scanned /\ \A M \in Markers(disk) :
                   ValueComplete(disk, M) /\ M >= 6 /\ NameDecodes(disk, M))
    => /\ outcome = "loaded"
       /\ OnePerMarker
       /\ \A j \in 1..(Len(properties) - 1) :
             NthMarker(disk, j + 1) >= properties[j].data_start + 4
                => properties[j].data_start < properties[j + 1].data_start

\* Two well-formed records, the first with a payload, scanned in order.
C6_Witness ==
    /\ outcome = "loaded"
    /\ Cardinality(Markers(disk)) = 2
    /\ \A M \in Markers(disk) : ValueComplete(disk, M) /\ M >= 6 /\ NameDecodes(disk, M)
    /\ Len(properties) = 2
    /\ properties[1].name = <<88, 80>>
    /\ properties[1].data_start = NthMarker(disk, 1) + 21
    /\ properties[2].name = <<76, 101, 118, 101, 108>>
    /\ properties[2].data_start >= properties[1].data_start + 4

(***************************************************************************)
(* C2.  As claimed: scanning the buffer patched at a record's             *)
(* value_offset with v yields that record with value v and every other    *)
(* record of the first scan unchanged, none added or removed.             *)
(***************************************************************************)
RoundTrip(k, v) ==
    LET again == read_int_properties(
                     overwrite_int(content, properties[k].data_start, v).content)
    IN  /\ ~again.raised
        /\ Len(again.results) = Len(properties)
        /\ \A j \in DOMAIN properties :
              IF j = k
              THEN /\ again.results[j].data_start = properties[k].data_start
                   /\ again.results[j].value = v
              ELSE again.results[j] = properties[j]

C2_Original ==
    outcome = "loaded"
    => \A k \in DOMAIN properties, v \in PatchValues : RoundTrip(k, v)

(***************************************************************************)
(* C2, amended.  The round trip holds when the 4 patched bytes lie        *)
(* outside every marker occurrence's name bytes (from the zero byte that  *)
(* ends the backward scan), marker, separator and length field, overlap   *)
(* no other record's value, and the patch creates no marker occurrence.   *)
(***************************************************************************)
Isolated(k, v) ==
    LET o == properties[k].data_start
    IN  /\ Markers(overwrite_int(content, o, v).content) = Markers(content)
        /\ \A M \in Markers(content) :
              \/ o + 4 <= Max(NameEndScan(content, M - 6), 0)
              \/ o >= M + 16
        /\ \A j \in DOMAIN properties :
              j # k => (properties[j].data_start + 4 <= o \/ o + 4 <= properties[j].data_start)

C2_RoundTrip ==
    outcome = "loaded"
    => \A k \in DOMAIN properties, v \in PatchValues :
          Isolated(k, v) => RoundTrip(k, v)

\* Two records, one of which can be patched in isolation to a new value.
C2_Witness ==
    /\ outcome = "loaded"
    /\ Len(properties) = 2
    /\ \E k \in DOMAIN properties, v \in PatchValues :
          /\ v # properties[k].value
          /\ Isolated(k, v)
          /\ RoundTrip(k, v)

(***************************************************************************)
(* Vocabulary of the properties of the classifier.                         *)
(***************************************************************************)
\* The first '_'-separated segment of a name
KeyOf(name) ==
    LET seps == {p \in DOMAIN name : name[p] = 95}
    IN  IF seps = {} THEN name
        ELSE SubSeq(name, 1, (CHOOSE p \in seps : \A q \in seps : p <= q) - 1)

IsSubstring(key, word) ==
    \E a \in 0..(Len(word) - Len(key)) : \A i \in 1..Len(key) : word[a + i] = key[i]

\* The first Keyword, in configured order, of which the record's key is a
\* substring; 0 when there is none
KeywordOf(name) ==
    LET fits == {j \in DOMAIN PROPERTY_KEYWORDS : IsSubstring(KeyOf(name), PROPERTY_KEYWORDS[j])}
    IN  IF fits = {} THEN 0 ELSE CHOOSE j \in fits : \A q \in fits : j <= q

\* The Keyword of each record held
Attribution == [i \in DOMAIN properties |-> KeywordOf(properties[i].name)]

\* The places <<slot, Keyword>> of the table that hold the record at offset
PlacesOf(offset) ==
    {pl \in (DOMAIN CHARACTERS) \X (DOMAIN PROPERTY_KEYWORDS) :
        /\ PROPERTY_KEYWORDS[pl[2]] \in DOMAIN table[CHARACTERS[pl[1]]]
        /\ table[CHARACTERS[pl[1]]][PROPERTY_KEYWORDS[pl[2]]].data_start = offset}

(***************************************************************************)
(* C9.  The n-th record attributed to a Keyword, n = 1..10, is entry K of *)
(* the n-th roster slot and of no other place; the 11th and later records *)
(* of a Keyword and the records of no Keyword are in no slot.             *)
(***************************************************************************)
C9_OccurrenceMapping ==
    outcome = "displayed"
    => LET kw == Attribution
       IN  \A i \in DOMAIN properties :
              LET n == Cardinality({j \in 1..i : kw[j] = kw[i]})
              IN  IF kw[i] # 0 /\ n <= Len(CHARACTERS)
                  THEN /\ PlacesOf(properties[i].data_start) = {<<n, kw[i]>>}
                       /\ table[CHARACTERS[n]][PROPERTY_KEYWORDS[kw[i]]].name = properties[i].name
                       /\ table[CHARACTERS[n]][PROPERTY_KEYWORDS[kw[i]]].value = properties[i].value
                  ELSE PlacesOf(properties[i].data_start) = {}

\* A Keyword that occurs roster length + 2 times: ten slots hold it and the
\* last two records are in no slot.
C9_Witness ==
    /\ outcome = "displayed"
    /\ Len(properties) = Len(CHARACTERS) + 2
    /\ \A i \in DOMAIN properties : KeywordOf(properties[i].name) = 1
    /\ \A c \in DOMAIN CHARACTERS :
          table[CHARACTERS[c]][PROPERTY_KEYWORDS[1]].data_start = properties[c].data_start
    /\ PlacesOf(properties[Len(CHARACTERS) + 1].data_start) = {}
    /\ PlacesOf(properties[Len(CHARACTERS) + 2].data_start) = {}

(***************************************************************************)
(* C10.  A slot is reported unlocked exactly when the table resolves every*)
(* configured Keyword to it, which is when every Keyword has at least as  *)
(* many records as the slot's rank in the roster; a Keyword never counts  *)
(* twice toward one slot.                                                 *)
(***************************************************************************)
C10_UnlockedIffAllKeywords ==
    outcome = "displayed"
    => LET kw == Attribution
       IN  \A c \in DOMAIN CHARACTERS :
              /\ unlocked[CHARACTERS[c]]
                    <=> (Cardinality(DOMAIN table[CHARACTERS[c]]) = Len(PROPERTY_KEYWORDS))
              /\ unlocked[CHARACTERS[c]]
                    <=> \A k \in DOMAIN PROPERTY_KEYWORDS :
                           Cardinality({i \in DOMAIN properties : kw[i] = k}) >= c

\* The first slot has all six Keywords, the second only five; Level has
\* more records than there are Keywords.
C10_Witness ==
    /\ outcome = "displayed"
    /\ unlocked[CHARACTERS[1]]
    /\ ~unlocked[CHARACTERS[2]]
    /\ Cardinality(DOMAIN table[CHARACTERS[2]]) = Len(PROPERTY_KEYWORDS) - 1
    /\ Cardinality({i \in DOMAIN properties : KeywordOf(properties[i].name) = 1})
          > Len(PROPERTY_KEYWORDS)

(***************************************************************************)
(* Vocabulary of the claim about sequences of edits.                       *)
(***************************************************************************)
\* The 0-based positions of the value region of record k.
ValueRegion(k) == properties[k].data_start .. (properties[k].data_start + 3)

\* Position p lies in the value region of a record an Apply has written.
InEditedRegion(p) == \E k \in DOMAIN edits : edits[k].done /\ p \in ValueRegion(k)

\* Another record an Apply has written has a value region meeting that of k.
OverlapsEdited(k) ==
    \E j \in DOMAIN edits :
        j # k /\ edits[j].done /\ ValueRegion(j) \cap ValueRegion(k) # {}

(***************************************************************************)
(* C11.  After a successful load and any sequence of Apply edits made     *)
(* with the offsets of that load's scan, the held buffer, which is what   *)
(* Save writes, has the length of the loaded buffer and equals it at      *)
(* every byte outside the value regions of the edited records; the        *)
(* records held are still those of the load's scan and their offsets      *)
(* still address 4 bytes of the buffer; an edited region that no other    *)
(* edited region overlaps holds the little-endian encoding of the last    *)
(* value applied to it.                                                   *)
(***************************************************************************)
C11_EditsKeepFrame ==
    /\ outcome = "saved" => disk = content
    /\ file_loaded =>
          /\ Len(content) = Len(loaded)
          /\ \A p \in 0..(Len(loaded) - 1) :
                ~InEditedRegion(p) => content[p + 1] = loaded[p + 1]
          /\ properties = read_int_properties(loaded).results
          /\ \A k \in DOMAIN properties : Addressable(content, properties[k].data_start)
          /\ \A k \in DOMAIN edits :
                (edits[k].done /\ ~OverlapsEdited(k))
                   => \A i \in 1..4 :
                         content[properties[k].data_start + i] = LEByte(edits[k].value, i)

\* Both records of a file edited, to different values and in regions that
\* do not meet, and the result saved over the file that was loaded.
C11_Witness ==
    /\ outcome = "saved"
    /\ Len(properties) = 2
    /\ edits[1].done /\ edits[2].done
    /\ edits[1].value = PyInt(FALSE, <<255, 255, 255, 255>>)
    /\ edits[2].value = PyInt(FALSE, <<100>>)
    /\ ~OverlapsEdited(1)
    /\ disk = content
    /\ content # loaded

(***************************************************************************)
(* Vocabulary of the claim about the termination of the scan.              *)
(***************************************************************************)
\* The scan has ended, by returning or by raising.
ScanEnded == scan.pc \in {"return", "raised"}

\* This step ends a pass of the outer loop and goes back to its test.
PassEnds == scan.pc = "name" /\ scan'.pc = "while"

(***************************************************************************)
(* C12.  The scan terminates on every buffer: each pass of the outer loop *)
(* finds its marker M at or after the cursor and leaves the cursor at     *)
(* M + 1, strictly greater than before; no more passes begin than the     *)
(* buffer has bytes; and the scan ends, whatever the buffer holds,        *)
(* adjacent markers included.                                             *)
(***************************************************************************)
C12_ScanTerminates ==
    /\ [][ PassEnds => /\ scan.start_pos >= scan.i
                       /\ scan'.i = scan.start_pos + 1
                       /\ scan'.i > scan.i ]_vars
    /\ [](scan.passes <= Len(disk))
    /\ <>ScanEnded

\* A scan that has returned after three passes over a buffer with two
\* adjacent markers, with a record found and the cursor past the last marker.
C12_Witness ==
    /\ scan.pc = "return"
    /\ scan.passes = 3
    /\ Len(scan.results) >= 1
    /\ find(disk, Marker \o Marker, 0) # -1
    /\ scan.i = scan.start_pos + 1
    /\ scan.i > Len(Marker) + Len(Marker)

====
